---- MODULE Spec2Model ----
(***************************************************************************)
(* Model of the follow-graph scrapers: the scroll-and-extract Collector    *)
(* loops (fetch_user_following, fetch_following, fetch_list_members) and   *)
(* the batch loop of main() in fetch_operator_following.py /               *)
(* fetch_researcher_following.py with its per-target checkpoint files and  *)
(* the aggregate network file.                                             *)
(*                                                                         *)
(* Strings that the code takes apart (hrefs, input lines) are sequences of *)
(* tokens: "/" and the whitespace tokens are single characters, any other  *)
(* token is a maximal run of other characters.                             *)
(***************************************************************************)
EXTENDS Naturals, Sequences, FiniteSets, TLC

\* ------------------------------------------------------------- bounds
MaxBatch == 2      \* cells one query_selector_all call returns
MaxCap == 2        \* largest explicit max_following argument tried
MaxLines == 2      \* lines of the input list file
MaxRuns == 2       \* invocations of main() in a row

\* -------------------------------------------------- program constants
DefaultMaxFollowing == 500
MaxNoNewUser == 3
MaxNoNewList == 10
MaxScrolls == 200

\* ------------------------------------------------------ string helpers
Range(s) == {s[k] : k \in 1..Len(s)}

RECURSIVE LStrip(_, _)
LStrip(s, chars) ==
    IF s # <<>> /\ Head(s) \in chars THEN LStrip(Tail(s), chars) ELSE s

RECURSIVE RStrip(_, _)
RStrip(s, chars) ==
    IF s # <<>> /\ s[Len(s)] \in chars
    THEN RStrip(SubSeq(s, 1, Len(s) - 1), chars)
    ELSE s

\* str.strip(chars)
Strip(s, chars) == RStrip(LStrip(s, chars), chars)

\* sub in s
Contains(s, sub) ==
    \E k \in 1..(Len(s) + 1) :
        /\ k + Len(sub) - 1 <= Len(s)
        /\ SubSeq(s, k, k + Len(sub) - 1) = sub

\* the string a token sequence spells
RECURSIVE Join(_)
Join(u) == IF u = <<>> THEN "" ELSE Head(u) \o Join(Tail(u))

\* ------------------------------------------------------ the page feed
NoName == "<no name element>"

\* A UserCell as the extraction code sees it: whether a profile link is found,
\* its href, the text of the display-name element (NoName: no such element),
\* and whether a page call on the cell raises.
Cell(has_link, href, name, raises) ==
    [has_link |-> has_link, href |-> href, name |-> name, raises |-> raises]

CellKinds ==
    { Cell(TRUE, <<"/", "a">>, "Al", FALSE),
      Cell(TRUE, <<"/", "a", "/">>, NoName, FALSE),
      Cell(TRUE, <<"/", "b">>, "NA", FALSE),
      Cell(TRUE, <<"/">>, "Al", FALSE),
      Cell(TRUE, <<"/", "status", "/">>, "Al", FALSE),
      Cell(TRUE, <<"/", "a", "/", "b">>, "Al", FALSE),
      Cell(FALSE, <<>>, NoName, FALSE),
      Cell(TRUE, <<"/", "b">>, "NA", TRUE) }

RECURSIVE SeqsUpTo(_, _)
SeqsUpTo(S, n) ==
    IF n = 0 THEN {<<>>}
    ELSE LET shorter == SeqsUpTo(S, n - 1)
         IN shorter \cup {Append(s, x) : s \in shorter, x \in S}

\* what one query_selector_all('[data-testid="UserCell"]') may return
Batches == SeqsUpTo(CellKinds, MaxBatch)

\* A long page: one more account than the list-member Collector has scroll
\* steps, revealed at most one per cycle.
MaxMembers == MaxScrolls + 1

\* the UserCell of the k-th account of the long page
MemberCell(k) == Cell(TRUE, <<"/", "m" \o ToString(k)>>, "M", FALSE)

MemberCells == {MemberCell(k) : k \in 1..MaxMembers}

\* ------------------------------------------------- record extraction
Extract_NoStatusCheck(cell) ==
    IF cell.raises THEN <<>>
    ELSE IF ~cell.has_link THEN <<>>
    ELSE IF cell.href = <<>> \/ cell.href = <<"/">> THEN <<>>
    ELSE LET followed_username == Strip(cell.href, {"/"})
         IN IF followed_username = <<>> \/ "/" \in Range(followed_username)
            THEN <<>>
            ELSE << [username |-> Join(followed_username),
                     display_name |-> IF cell.name = NoName THEN "" ELSE cell.name] >>

\* The body of the per-cell try block up to the seen check: <<>> when the cell
\* is skipped (continue, or the except clause), else <<record>>.
Extract(cell) ==
    IF cell.raises THEN <<>>
    ELSE IF ~cell.has_link THEN <<>>
    ELSE IF cell.href = <<>> \/ cell.href = <<"/">>
            \/ Contains(cell.href, <<"/", "status", "/">>) THEN <<>>
    ELSE LET followed_username == Strip(cell.href, {"/"})
         IN IF followed_username = <<>> \/ "/" \in Range(followed_username)
            THEN <<>>
            ELSE << [username |-> Join(followed_username),
                     display_name |-> IF cell.name = NoName THEN "" ELSE cell.name] >>

\* Extract, tabulated over the cells of the feed
Extracted == [c \in CellKinds \cup MemberCells |-> Extract(c)]

Variants == {"user", "self", "list"}

\* fetch_user_following is the only Collector with an item cap
Capped(v) == v = "user"

MaxNoNew(v) == IF v = "list" THEN MaxNoNewList ELSE MaxNoNewUser

CapReached_Never(lst, capped, cap) == FALSE

\* if len(following_list) >= max_following: break
CapReached(lst, capped, cap) == capped /\ Len(lst) >= cap

AlreadySeen(u, seen) == u.username \in seen

Remember_Forgets(seen, u) == seen

\* seen_users.add(followed_username)
Remember(seen, u) == seen \cup {u.username}

RECURSIVE ProcessCells_StopsAtSkip(_, _, _, _, _)
ProcessCells_StopsAtSkip(cells, lst, seen, capped, cap) ==
    IF cells = <<>> THEN [list |-> lst, seen |-> seen]
    ELSE IF CapReached(lst, capped, cap) THEN [list |-> lst, seen |-> seen]
    ELSE LET x == Extracted[Head(cells)]
         IN IF x = <<>> THEN [list |-> lst, seen |-> seen]
            ELSE IF ~AlreadySeen(x[1], seen)
            THEN ProcessCells_StopsAtSkip(Tail(cells), Append(lst, x[1]),
                                          Remember(seen, x[1]), capped, cap)
            ELSE ProcessCells_StopsAtSkip(Tail(cells), lst, seen, capped, cap)

RECURSIVE ProcessCells_Prepends(_, _, _, _, _)
ProcessCells_Prepends(cells, lst, seen, capped, cap) ==
    IF cells = <<>> THEN [list |-> lst, seen |-> seen]
    ELSE IF CapReached(lst, capped, cap) THEN [list |-> lst, seen |-> seen]
    ELSE LET x == Extracted[Head(cells)]
         IN IF x # <<>> /\ ~AlreadySeen(x[1], seen)
            THEN ProcessCells_Prepends(Tail(cells), <<x[1]>> \o lst,
                                       Remember(seen, x[1]), capped, cap)
            ELSE ProcessCells_Prepends(Tail(cells), lst, seen, capped, cap)

\* the for loop over one batch of cells
RECURSIVE ProcessCells(_, _, _, _, _)
ProcessCells(cells, lst, seen, capped, cap) ==
    IF cells = <<>> THEN [list |-> lst, seen |-> seen]
    ELSE IF CapReached(lst, capped, cap) THEN [list |-> lst, seen |-> seen]
    ELSE LET x == Extracted[Head(cells)]
         IN IF x # <<>> /\ ~AlreadySeen(x[1], seen)
            THEN ProcessCells(Tail(cells), Append(lst, x[1]),
                              Remember(seen, x[1]), capped, cap)
            ELSE ProcessCells(Tail(cells), lst, seen, capped, cap)

NextNoNew_NoReset(stalled, n) == IF stalled THEN n + 1 ELSE n

NextNoNew_NeverCounts(stalled, n) == 0

\* if current_count == last_count: no_new_users_count += 1  else: = 0
NextNoNew(stalled, n) == IF stalled THEN n + 1 ELSE 0

StallStop_AtFirst(stalled, n, window) == stalled

\* if no_new_users_count >= max_no_new: break (inside the no-progress branch)
StallStop(stalled, n, window) == stalled /\ n >= window

\* the while condition of each Collector
LoopGuard(v, count, cap, scrolls) ==
    CASE v = "user" -> count < cap
      [] v = "self" -> TRUE
      [] v = "list" -> scrolls < MaxScrolls

UsernamesOf(lst) == {lst[k].username : k \in 1..Len(lst)}

\* the well-formed identities a batch shows, whatever the Collector does with them
ShownIn(batch) ==
    {Extracted[batch[k]][1].username :
        k \in {j \in 1..Len(batch) : Extracted[batch[j]] # <<>>}}

\* a batch shows an identity that was shown before, or shows one twice
ShownTwice(batch, before) ==
    \/ ShownIn(batch) \cap before # {}
    \/ \E j, k \in 1..Len(batch) :
           /\ j < k
           /\ Extracted[batch[j]] # <<>>
           /\ Extracted[batch[k]] # <<>>
           /\ Extracted[batch[j]][1].username = Extracted[batch[k]][1].username

\* the positions of a batch whose cell shows a well-formed identity that was
\* not seen before the cycle and is not shown earlier in the batch
FreshAt(batch, seen) ==
    {k \in 1..Len(batch) :
        /\ Extracted[batch[k]] # <<>>
        /\ Extracted[batch[k]][1].username \notin seen
        /\ \A j \in 1..(k - 1) :
               \/ Extracted[batch[j]] = <<>>
               \/ Extracted[batch[j]][1].username # Extracted[batch[k]][1].username}

\* the positions of a batch whose identity is in a result
UsernamesAt(batch, lst) ==
    {k \in 1..Len(batch) :
        Extracted[batch[k]] # <<>> /\ Extracted[batch[k]][1].username \in UsernamesOf(lst)}

\* the records of those positions, in the batch's order
Fresh(batch, seen) ==
    LET K == FreshAt(batch, seen)
        nth(n) == CHOOSE k \in K : Cardinality({j \in K : j <= k}) = n
    IN [n \in 1..Cardinality(K) |-> Extracted[batch[nth(n)]][1]]

\* the positions of a batch whose cell is skipped: its extraction raises, or it
\* shows no well-formed identity
SkippedAt(batch) == {k \in 1..Len(batch) : Extracted[batch[k]] = <<>>}

\* every identity a cell of the feed can show
Usernames == UNION {ShownIn(<<c>>) : c \in CellKinds}

\* --------------------------------------------------- the input list
Whitespace == {" ", "\n"}

\* the lines f.readlines() may return
Lines == { <<"A", "\n">>, <<" ", "A", "\n">>, <<"B", "\n">>, <<"\n">> }

\* the source identities the lines can spell
Idents == {Join(Strip(l, Whitespace)) : l \in Lines} \ {""}

\* every identity a checkpoint file can be named after
Targets == Idents \cup Usernames

\* [line.strip() for line in f.readlines() if line.strip()]
ReadOperators(lines) ==
    LET stripped == [k \in 1..Len(lines) |-> Join(Strip(lines[k], Whitespace))]
    IN SelectSeq(stripped, LAMBDA x : x # "")

\* ------------------------------------------------------------ CSV files
\* A file is [exists, rows]; rows are records of field texts.
NoFile == [exists |-> FALSE, rows |-> <<>>]

\* the missing value pandas holds for a field it read as missing
NaN == "<float nan>"

\* pandas.read_csv defaults (keep_default_na): field texts parsed as missing.
\* (read_csv also infers numeric column types; the names of the feed are not
\* numeric, so that conversion never applies here.)
NaTokens == {"", "#N/A", "#N/A N/A", "#NA", "-1.#IND", "-1.#QNAN", "-NaN",
             "-nan", "1.#IND", "1.#QNAN", "<NA>", "N/A", "NA", "NULL", "NaN",
             "None", "n/a", "nan", "null"}

ReadField(text) == IF text \in NaTokens THEN NaN ELSE text

\* DataFrame.to_csv defaults (na_rep=''): a missing value is written empty
WriteField(v) == IF v = NaN THEN "" ELSE v

\* DataFrame(rows).to_csv(path, index=False)
to_csv(rows) ==
    [exists |-> TRUE,
     rows |-> [k \in 1..Len(rows) |->
                  [c \in DOMAIN rows[k] |-> WriteField(rows[k][c])]]]

\* pd.read_csv(path)
read_csv(file) ==
    [k \in 1..Len(file.rows) |->
        [c \in DOMAIN file.rows[k] |-> ReadField(file.rows[k][c])]]

Edge(operator, follows, name) ==
    [operator |-> operator, follows |-> follows, follows_display_name |-> name]

\* for _, row in df.iterrows(): all_relationships.append({...})
LoadedEdges(operator, file) ==
    LET df == read_csv(file)
    IN [k \in 1..Len(df) |-> Edge(operator, df[k].username, df[k].display_name)]

\* for person in following: all_relationships.append({...})
CrawledEdges(operator, following) ==
    [k \in 1..Len(following) |->
        Edge(operator, following[k].username, following[k].display_name)]

\* ------------------------------------------------ the Network Assembler
\* the column of a DataFrame of edges
Column(rows, c) == [k \in 1..Len(rows) |-> rows[k][c]]

\* the distinct values of a column in order of first appearance, missing dropped
RECURSIVE Unique(_, _)
Unique(column, acc) ==
    IF column = <<>> THEN acc
    ELSE IF Head(column) = NaN \/ Head(column) \in Range(acc)
         THEN Unique(Tail(column), acc)
         ELSE Unique(Tail(column), Append(acc, Head(column)))

\* Series.nunique()
nunique(column) == Len(Unique(column, <<>>))

\* Series.value_counts() before its sort: each value with the number of rows
\* that hold it
Counts(column) ==
    LET values == Unique(column, <<>>)
    IN [k \in 1..Len(values) |->
           [username |-> values[k],
            count |-> Cardinality({j \in 1..Len(column) : column[j] = values[k]})]]

\* The orders value_counts() may leave the values in: it sorts by count,
\* descending, with sort_values' default kind 'quicksort', which is not a stable
\* sort, so values of equal count come out in an order the library leaves open.
SortedOrders(counts) ==
    {p \in Permutations(1..Len(counts)) :
        \A j, k \in 1..Len(counts) : j < k => counts[p[j]].count >= counts[p[k]].count}

\* follow_counts.head(20)
TopN == 20

head(rows, n) == SubSeq(rows, 1, IF Len(rows) < n THEN Len(rows) ELSE n)

\* percentage = (count / total) * 100, kept as a fraction
Percentage(count, total) == [num |-> count * 100, den |-> total]

\* the lines the ranking loop may print for a column of followed usernames
Ranking(column, total) ==
    LET counts == Counts(column)
    IN {head([k \in 1..Len(counts) |->
                 [username |-> counts[p[k]].username,
                  count |-> counts[p[k]].count,
                  percentage |-> Percentage(counts[p[k]].count, total)]], TopN) :
           p \in SortedOrders(counts)}

drop_duplicates_Keeps(rows) == rows

\* DataFrame.drop_duplicates(): of rows equal in every column the first is kept
drop_duplicates(rows) ==
    LET keep == {k \in 1..Len(rows) : \A j \in 1..(k - 1) : rows[j] # rows[k]}
        nth(n) == CHOOSE k \in keep : Cardinality({j \in keep : j <= k}) = n
    IN [n \in 1..Cardinality(keep) |-> rows[nth(n)]]

\* pd.concat([existing_network, new_df]) unless existing_network.empty, then
\* drop_duplicates()
CombinedNetwork(existing, new_relationships) ==
    drop_duplicates(IF existing # <<>> THEN existing \o new_relationships
                    ELSE new_relationships)

\* --------------------------------------------------------------- state
VARIABLES
    variant,             \* which Collector is running
    cpc,                 \* "idle" | "loop" | "returned" | "raised"
    max_following,
    following_list,      \* following_list / members
    seen_users,
    last_count,
    no_new_users_count,
    scroll_count,
    loaded,              \* the wait for the first UserCell succeeded
    timed_out,           \* the wait for the first UserCell timed out
    cycle,               \* history: extraction cycles completed in this call
    fed,                 \* history: well-formed identities the feed has shown
    grow_cycle,          \* history: last cycle in which fed grew
    left_over,           \* history: the last cycle left a new identity unadded
    reshown,             \* history: the feed has shown an identity a second time
    accepted_all,        \* history: the last cycle appended every new well-formed
                         \*   identity of its batch, in the batch's order
    mixed,               \* history: where the last batch held a skipped cell next
                         \*   to an accepted one: {"before", "after"} or fewer
    first_seen,          \* history: the well-formed identities the feed has shown,
                         \*   each once, in the order of their first showing
    operators_file,      \* data/operators.txt: [exists, lines]
    files,               \* FOLLOWING_DIR: identity -> its <identity>_following.csv
    network_file,        \* data/operator_following_network.csv
    pc,                  \* where main() is: "off" | "idle" | "session" | "loop" |
                         \*   "fetching" | "closing" | "done"
    run,                 \* which invocation of main() this is
    operators,
    i,                   \* the loop index of enumerate(operators, 1)
    all_relationships,
    attempts,            \* history: Collector calls per identity in this run
    sleeps,              \* history: inter-target delays slept in this run
    ckpt_at_start,       \* history: identities with a checkpoint when the run began
    failed,              \* history: what reached except: "" | "session" | "crawl"
                         \*   | "checkpoint" | "aggregate"
    raised_target,       \* history: the identity whose crawl raised in this run
    completed,           \* history: identities whose loaded list view was crawled
                         \*   to the Collector's return in this run
    wrote,               \* history: this run wrote the aggregate file
    prev,                \* history: the previous run's outcome
    script,              \* which script's main() runs: "operator" | "list" | "self"
    scraper,             \* the scraper object has been created
    existing_network,    \* scrape_list_members: the rows of the prior aggregate
    report,              \* the ranking lines printed, top first
    closed,              \* history: calls of scraper.close() in this run
    exit_status          \* the exit status of the process once pc = "done"

\* the Collector's parameters and locals
cvars == <<variant, cpc, max_following, following_list, seen_users, last_count,
           no_new_users_count, scroll_count, loaded, timed_out>>

\* what an observer of a Collector call on its own records about the feed
hvars == <<cycle, fed, grow_cycle, left_over, reshown, accepted_all, mixed,
           first_seen>>

svars == <<operators_file, files, network_file, pc, run, operators, i,
           all_relationships, attempts, sleeps, ckpt_at_start, failed,
           raised_target, completed, wrote, prev>>

\* the run's script, its session object, and what it prints and exits with
mvars == <<script, scraper, existing_network, report, closed, exit_status>>

vars == <<cvars, hvars, svars, mvars>>

\* ---------------------------------------------------------- Collector
\* page.goto, the bounded wait for the first UserCell, and the locals' setup
Navigate(v, cap, outcome) ==
    /\ variant' = v
    /\ max_following' = cap
    /\ following_list' = <<>>
    /\ seen_users' = {}
    /\ last_count' = 0
    /\ no_new_users_count' = 0
    /\ scroll_count' = 0
    /\ loaded' = (outcome = "loaded")
    /\ timed_out' = (outcome = "timeout")
    /\ cpc' = CASE outcome = "goto_raises" -> "raised"
                [] outcome = "timeout" -> IF v = "self" THEN "raised" ELSE "returned"
                [] outcome = "loaded" -> IF LoopGuard(v, 0, cap, 0) THEN "loop"
                                         ELSE "returned"

\* The first half of one iteration of the while loop: query the cells, run the
\* for loop over them, then the stall check (which may break out of the loop).
CycleBody(batch) ==
    LET r == ProcessCells(batch, following_list, seen_users,
                          Capped(variant), max_following)
        current_count == Len(r.list)
        stalled == current_count = last_count
        n == NextNoNew(stalled, no_new_users_count)
        stop == StallStop(stalled, n, MaxNoNew(variant))
    IN /\ cpc = "loop"
       /\ UNCHANGED <<variant, max_following, loaded, timed_out, scroll_count>>
       /\ following_list' = r.list
       /\ seen_users' = r.seen
       /\ no_new_users_count' = n
       /\ IF stop
          THEN cpc' = "returned" /\ UNCHANGED last_count
          ELSE cpc' = "scroll" /\ last_count' = current_count

\* The second half: scroll_count += 1 (list members only), the scroll call and
\* the settle wait, then the while condition is tested again.
ScrollBody(raises) ==
    LET sc == IF variant = "list" THEN scroll_count + 1 ELSE scroll_count
    IN /\ cpc = "scroll"
       /\ scroll_count' = sc
       /\ cpc' = IF raises THEN "raised"
                 ELSE IF LoopGuard(variant, Len(following_list), max_following, sc)
                 THEN "loop" ELSE "returned"
       /\ UNCHANGED <<variant, max_following, following_list, seen_users,
                      last_count, no_new_users_count, loaded, timed_out>>

\* query_selector_all raises: the exception leaves the Collector
QueryRaises ==
    /\ cpc = "loop"
    /\ cpc' = "raised"
    /\ UNCHANGED <<variant, max_following, following_list, seen_users,
                   last_count, no_new_users_count, scroll_count, loaded, timed_out>>

\* the Collector's locals before a call and after its frame is gone
FrameIdle ==
    /\ cpc' = "idle"
    /\ following_list' = <<>>
    /\ seen_users' = {}
    /\ last_count' = 0
    /\ no_new_users_count' = 0
    /\ scroll_count' = 0
    /\ loaded' = FALSE
    /\ timed_out' = FALSE

\* ------------------------------------ a Collector called on its own
\* what the observer notes of one extraction cycle over `batch`
Observe(batch) ==
    /\ cycle' = cycle + 1
    /\ fed' = fed \cup ShownIn(batch)
    /\ grow_cycle' = IF ShownIn(batch) \subseteq fed THEN grow_cycle ELSE cycle + 1
    /\ left_over' = ~(ShownIn(batch) \subseteq UsernamesOf(following_list'))
    /\ reshown' = (reshown \/ ShownTwice(batch, fed))
    /\ UNCHANGED <<accepted_all, mixed, first_seen>>

\* what an observer of the per-cell try block notes of one cycle over `batch`
Watch(batch) ==
    /\ accepted_all' = (following_list' = following_list \o Fresh(batch, seen_users))
    /\ UNCHANGED <<cycle, fed, grow_cycle, left_over, reshown>>
    /\ first_seen' = first_seen
                         \o Column(Fresh(batch, Range(first_seen)), "username")
    /\ LET got == FreshAt(batch, seen_users) \cap UsernamesAt(batch, following_list')
       IN mixed' = mixed
              \cup (IF \E k \in got, sk \in SkippedAt(batch) : k < sk
                    THEN {"before"} ELSE {})
              \cup (IF \E k \in got, sk \in SkippedAt(batch) : sk < k
                    THEN {"after"} ELSE {})

Call ==
    /\ pc = "off"
    /\ cpc = "idle"
    /\ \E outcome \in {"goto_raises", "timeout", "loaded"} :
           Navigate(variant, max_following, outcome)
    /\ UNCHANGED <<hvars, svars, mvars>>

Cycle ==
    /\ pc = "off"
    /\ \E batch \in Batches : CycleBody(batch) /\ Observe(batch)
    /\ UNCHANGED <<svars, mvars>>

CycleFails ==
    /\ pc = "off"
    /\ QueryRaises
    /\ UNCHANGED <<hvars, svars, mvars>>

Scroll ==
    /\ pc = "off"
    /\ \E raises \in BOOLEAN : ScrollBody(raises)
    /\ UNCHANGED <<hvars, svars, mvars>>

NoRun == [ran |-> FALSE, wrote |-> FALSE, network |-> NoFile, raised |-> {}]

\* a data directory with no checkpoint and no aggregate file
DataDirEmpty ==
    /\ files = [t \in Targets |-> NoFile]
    /\ network_file = NoFile

\* main() has not begun
RunIdle ==
    /\ run = 1
    /\ operators = <<>>
    /\ i = 1
    /\ all_relationships = <<>>
    /\ attempts = [t \in Targets |-> 0]
    /\ sleeps = 0
    /\ ckpt_at_start = {}
    /\ failed = ""
    /\ raised_target = {}
    /\ completed = {}
    /\ wrote = FALSE
    /\ prev = NoRun
    /\ scraper = FALSE
    /\ existing_network = <<>>
    /\ report = <<>>
    /\ closed = 0
    /\ exit_status = 0

SchedulerIdle ==
    /\ DataDirEmpty
    /\ RunIdle

CollectorInit ==
    /\ variant \in Variants
    /\ max_following \in IF variant = "user"
                         THEN (0..MaxCap) \cup {DefaultMaxFollowing}
                         ELSE {DefaultMaxFollowing}
    /\ cpc = "idle"
    /\ following_list = <<>>
    /\ seen_users = {}
    /\ last_count = 0
    /\ no_new_users_count = 0
    /\ scroll_count = 0
    /\ loaded = FALSE
    /\ timed_out = FALSE
    /\ cycle = 0
    /\ fed = {}
    /\ grow_cycle = 0
    /\ left_over = FALSE
    /\ reshown = FALSE
    /\ accepted_all = TRUE
    /\ mixed = {}
    /\ first_seen = <<>>
    /\ script = "none"
    /\ pc = "off"
    /\ operators_file = [exists |-> FALSE, lines |-> <<>>]
    /\ SchedulerIdle

CollectorNext == Call \/ Cycle \/ CycleFails \/ Scroll

SpecCollector == CollectorInit /\ [][CollectorNext]_vars

\* the same Collector call, observed cell by cell
CycleWatched ==
    /\ pc = "off"
    /\ \E batch \in Batches : CycleBody(batch) /\ Watch(batch)
    /\ UNCHANGED <<svars, mvars>>

ExtractNext == Call \/ CycleWatched \/ CycleFails \/ Scroll

SpecExtract == CollectorInit /\ [][ExtractNext]_vars

\* Every step of a Collector call is an awaited page call, which returns or
\* raises, or plain computation: a call that can take a step takes one.
SpecExtractFair == SpecExtract /\ WF_vars(ExtractNext)

\* A Collector call on the long page: a cycle finds either the next account
\* not yet shown, or nothing new.
PageBatches(shown) ==
    {<<>>} \cup (IF shown < MaxMembers THEN {<<MemberCell(shown + 1)>>} ELSE {})

PageCycle ==
    /\ pc = "off"
    /\ \E batch \in PageBatches(Cardinality(fed)) :
          CycleBody(batch) /\ Observe(batch)
    /\ UNCHANGED <<svars, mvars>>

PageNext == Call \/ PageCycle \/ CycleFails \/ Scroll

SpecPage == CollectorInit /\ [][PageNext]_vars

\* ------------------------------------------------- the batch loop, main()
InputFiles ==
    {[exists |-> FALSE, lines |-> <<>>]}
        \cup {[exists |-> TRUE, lines |-> ls] : ls \in SeqsUpTo(Lines, MaxLines)}

MainBegin_NoCheck ==
    /\ script = "operator"
    /\ pc = "idle"
    /\ operators' = ReadOperators(operators_file.lines)
    /\ pc' = "session"
    /\ ckpt_at_start' = {t \in Targets : files[t].exists}
    /\ scraper' = TRUE
    /\ UNCHANGED <<cvars, hvars, operators_file, files, network_file, run, i,
                   all_relationships, attempts, sleeps, failed, raised_target,
                   completed, wrote, prev, script, existing_network, report,
                   closed, exit_status>>

\* if not operators_file.exists(): return; else read the list
MainBegin ==
    /\ script = "operator"
    /\ pc = "idle"
    /\ IF operators_file.exists
       THEN /\ operators' = ReadOperators(operators_file.lines)
            /\ pc' = "session"
       ELSE /\ operators' = <<>>
            /\ pc' = "done"
    /\ ckpt_at_start' = {t \in Targets : files[t].exists}
    /\ scraper' = operators_file.exists
    /\ UNCHANGED <<cvars, hvars, operators_file, files, network_file, run, i,
                   all_relationships, attempts, sleeps, failed, raised_target,
                   completed, wrote, prev, script, existing_network, report,
                   closed, exit_status>>

\* what each script does once logged in: the batch loop, the crawl of the
\* list's members, or the crawl of the own following page
AfterLogin ==
    CASE script = "operator" -> "loop"
      [] script = "list" -> "members"
      [] script = "self" -> "own"

\* scraper.start(); scraper.login(); all_relationships = []
StartSession ==
    /\ pc = "session"
    /\ \E ok \in BOOLEAN :
          IF ok THEN pc' = AfterLogin /\ failed' = failed
          ELSE pc' = "closing" /\ failed' = "session"
    /\ i' = 1
    /\ all_relationships' = <<>>
    /\ UNCHANGED <<cvars, hvars, operators_file, files, network_file, run, operators,
                   attempts, sleeps, ckpt_at_start, raised_target, completed,
                   wrote, prev, mvars>>

HasCheckpoint_Never(t) == FALSE

\* output_file.exists()
HasCheckpoint(t) == files[t].exists

\* the branch of the loop body taken when output_file.exists()
LoadCheckpoint ==
    /\ pc = "loop"
    /\ i <= Len(operators)
    /\ HasCheckpoint(operators[i])
    /\ all_relationships' =
           all_relationships \o LoadedEdges(operators[i], files[operators[i]])
    /\ i' = i + 1
    /\ UNCHANGED <<cvars, hvars, operators_file, files, network_file, pc, run,
                   operators, attempts, sleeps, ckpt_at_start, failed,
                   raised_target, completed, wrote, prev, mvars>>

\* an exception leaves fetch_user_following: main's except clause is next
CrawlRaised ==
    /\ pc' = "closing"
    /\ failed' = "crawl"
    /\ raised_target' = {operators[i]}

\* following = await scraper.fetch_user_following(operator): the call
FetchCall ==
    /\ pc = "loop"
    /\ i <= Len(operators)
    /\ ~HasCheckpoint(operators[i])
    /\ \E outcome \in {"goto_raises", "timeout", "loaded"} :
          /\ Navigate("user", DefaultMaxFollowing, outcome)
          /\ IF outcome = "goto_raises" THEN CrawlRaised
             ELSE pc' = "fetching" /\ UNCHANGED <<failed, raised_target>>
    /\ attempts' = [attempts EXCEPT ![operators[i]] = @ + 1]
    /\ UNCHANGED <<hvars, operators_file, files, network_file, run, operators, i,
                   all_relationships, sleeps, ckpt_at_start, completed, wrote,
                   prev, mvars>>

FetchCycle ==
    /\ pc = "fetching"
    /\ \E batch \in Batches : CycleBody(batch)
    /\ UNCHANGED <<hvars, svars, mvars>>

FetchCycleFails ==
    /\ pc = "fetching"
    /\ QueryRaises
    /\ CrawlRaised
    /\ UNCHANGED <<hvars, operators_file, files, network_file, run, operators, i,
                   all_relationships, attempts, sleeps, ckpt_at_start,
                   completed, wrote, prev, mvars>>

FetchScroll ==
    /\ pc = "fetching"
    /\ \E raises \in BOOLEAN :
          /\ ScrollBody(raises)
          /\ IF raises THEN CrawlRaised
             ELSE UNCHANGED <<pc, failed, raised_target>>
    /\ UNCHANGED <<hvars, operators_file, files, network_file, run, operators, i,
                   all_relationships, attempts, sleeps, ckpt_at_start,
                   completed, wrote, prev, mvars>>

\* if following: save the checkpoint and add the edges
Saved(following, old) == IF following # <<>> THEN to_csv(following) ELSE old

SleepsAfter_Always(n, k, len) == n + 1

\* if i < len(operators): await asyncio.sleep(3)
SleepsAfter(n, k, len) == IF k < len THEN n + 1 ELSE n

\* the rest of the else branch, once fetch_user_following has returned
FetchReturn ==
    /\ pc = "fetching"
    /\ cpc = "returned"
    /\ files' = [files EXCEPT ![operators[i]] = Saved(following_list, @)]
    /\ all_relationships' =
           IF following_list # <<>>
           THEN all_relationships \o CrawledEdges(operators[i], following_list)
           ELSE all_relationships
    /\ sleeps' = SleepsAfter(sleeps, i, Len(operators))
    /\ completed' = IF loaded THEN completed \cup {operators[i]} ELSE completed
    /\ i' = i + 1
    /\ pc' = "loop"
    /\ FrameIdle
    /\ UNCHANGED <<hvars, variant, max_following, operators_file, network_file, run,
                   operators, attempts, ckpt_at_start, failed, raised_target,
                   wrote, prev, mvars>>

\* What a to_csv call that does not complete may leave at its path: to_csv
\* opens the path itself for writing (no temporary file, no rename), so an
\* error at the open leaves what was there, and an error or an interrupt
\* after it leaves the header and the rows written so far.
Interrupted(rows, old) ==
    {old} \cup {to_csv(SubSeq(rows, 1, k)) : k \in 0..(Len(rows) - 1)}

\* df.to_csv(output_file) raises: the exception leaves the loop body before the
\* edges are appended, and main's except clause is next
SaveFails ==
    /\ pc = "fetching"
    /\ cpc = "returned"
    /\ following_list # <<>>
    /\ \E left \in Interrupted(following_list, files[operators[i]]) :
          files' = [files EXCEPT ![operators[i]] = left]
    /\ completed' = IF loaded THEN completed \cup {operators[i]} ELSE completed
    /\ pc' = "closing"
    /\ failed' = "checkpoint"
    /\ FrameIdle
    /\ UNCHANGED <<hvars, variant, max_following, operators_file, network_file, run,
                   operators, i, all_relationships, attempts, sleeps, ckpt_at_start,
                   raised_target, wrote, prev, mvars>>

\* the frame the aggregate is written from
AggregateRows ==
    IF script = "list" THEN CombinedNetwork(existing_network, all_relationships)
    ELSE all_relationships

\* the to_csv call of the aggregate raises: main's except clause is next
AggregateFails ==
    /\ pc = "loop"
    /\ i > Len(operators)
    /\ all_relationships # <<>>
    /\ network_file' \in Interrupted(AggregateRows, network_file)
    /\ pc' = "closing"
    /\ failed' = "aggregate"
    /\ UNCHANGED <<cvars, hvars, operators_file, files, run, operators, i,
                   all_relationships, attempts, sleeps, ckpt_at_start,
                   raised_target, completed, wrote, prev, mvars>>

\* after the loop: if all_relationships: write the aggregate network file
Aggregate ==
    /\ pc = "loop"
    /\ i > Len(operators)
    /\ script = "operator"
    /\ IF all_relationships # <<>>
       THEN /\ network_file' = to_csv(all_relationships)
            /\ wrote' = TRUE
            /\ report' \in Ranking(Column(all_relationships, "follows"),
                                   Len(operators))
       ELSE UNCHANGED <<network_file, wrote, report>>
    /\ pc' = "closing"
    /\ UNCHANGED <<cvars, hvars, operators_file, files, run, operators, i,
                   all_relationships, attempts, sleeps, ckpt_at_start, failed,
                   raised_target, completed, prev, script, scraper,
                   existing_network, closed, exit_status>>

\* except: log; finally: await scraper.close().  The except clause swallows
\* the exception, so main() returns and the process exits with status 0 unless
\* close() itself raises out of the finally clause.
Close ==
    /\ pc = "closing"
    /\ pc' = "done"
    /\ closed' = closed + 1
    /\ \E close_raises \in BOOLEAN : exit_status' = IF close_raises THEN 1 ELSE 0
    /\ FrameIdle
    /\ UNCHANGED <<hvars, variant, max_following, operators_file, files, network_file,
                   run, operators, i, all_relationships, attempts, sleeps,
                   ckpt_at_start, failed, raised_target, completed, wrote, prev,
                   script, scraper, existing_network, report>>

\* The script is started again on the same input list and data directory.
\* (Only the batch script's reruns are followed; what an earlier run of the
\* list script leaves behind is among the files its first state draws.)
NextRun ==
    /\ script = "operator"
    /\ pc = "done"
    /\ run < MaxRuns
    /\ run' = run + 1
    /\ pc' = "idle"
    /\ prev' = [ran |-> TRUE, wrote |-> wrote,
                network |-> IF wrote THEN network_file ELSE NoFile,
                raised |-> raised_target]
    /\ operators' = <<>>
    /\ i' = 1
    /\ all_relationships' = <<>>
    /\ attempts' = [t \in Targets |-> 0]
    /\ sleeps' = 0
    /\ ckpt_at_start' = {}
    /\ failed' = ""
    /\ raised_target' = {}
    /\ completed' = {}
    /\ wrote' = FALSE
    /\ scraper' = FALSE
    /\ report' = <<>>
    /\ closed' = 0
    /\ exit_status' = 0
    /\ UNCHANGED <<cvars, hvars, operators_file, files, network_file, script,
                   existing_network>>

Init ==
    /\ variant = "user"
    /\ max_following = DefaultMaxFollowing
    /\ cpc = "idle"
    /\ following_list = <<>>
    /\ seen_users = {}
    /\ last_count = 0
    /\ no_new_users_count = 0
    /\ scroll_count = 0
    /\ loaded = FALSE
    /\ timed_out = FALSE
    /\ cycle = 0
    /\ fed = {}
    /\ grow_cycle = 0
    /\ left_over = FALSE
    /\ reshown = FALSE
    /\ accepted_all = TRUE
    /\ mixed = {}
    /\ first_seen = <<>>
    /\ script = "operator"
    /\ pc = "idle"
    /\ operators_file \in InputFiles
    /\ SchedulerIdle

Next ==
    \/ MainBegin
    \/ StartSession
    \/ LoadCheckpoint
    \/ FetchCall
    \/ FetchCycle
    \/ FetchCycleFails
    \/ FetchScroll
    \/ FetchReturn
    \/ SaveFails
    \/ Aggregate
    \/ AggregateFails
    \/ Close
    \/ NextRun

Spec == Init /\ [][Next]_vars

\* ------------------------------------- scrape_list_members.py, main()
\* already_scraped = set(existing_network['researcher'].unique())
already_scraped == Range(Column(existing_network, "operator"))

\* the prior aggregate is read; scraper = ListMemberScraper()
ListBegin ==
    /\ script = "list"
    /\ pc = "idle"
    /\ existing_network' = IF network_file.exists THEN read_csv(network_file)
                           ELSE <<>>
    /\ ckpt_at_start' = {t \in Targets : files[t].exists}
    /\ scraper' = TRUE
    /\ pc' = "session"
    /\ UNCHANGED <<cvars, hvars, operators_file, files, network_file, run,
                   operators, i, all_relationships, attempts, sleeps, failed,
                   raised_target, completed, wrote, prev, script, report,
                   closed, exit_status>>

\* an exception leaves fetch_list_members or fetch_following: no target of a
\* batch is being crawled
SoleCrawlRaised ==
    /\ pc' = "closing"
    /\ failed' = "crawl"
    /\ UNCHANGED raised_target

\* members = await scraper.fetch_list_members(LIST_ID): the call
MembersCall ==
    /\ pc = "members"
    /\ \E outcome \in {"goto_raises", "timeout", "loaded"} :
          /\ Navigate("list", DefaultMaxFollowing, outcome)
          /\ IF outcome = "goto_raises" THEN SoleCrawlRaised
             ELSE pc' = "listing" /\ UNCHANGED <<failed, raised_target>>
    /\ UNCHANGED <<hvars, operators_file, files, network_file, run, operators, i,
                   all_relationships, attempts, sleeps, ckpt_at_start, completed,
                   wrote, prev, mvars>>

MembersCycle ==
    /\ pc = "listing"
    /\ \E batch \in Batches : CycleBody(batch)
    /\ UNCHANGED <<hvars, svars, mvars>>

MembersCycleFails ==
    /\ pc = "listing"
    /\ QueryRaises
    /\ SoleCrawlRaised
    /\ UNCHANGED <<hvars, operators_file, files, network_file, run, operators, i,
                   all_relationships, attempts, sleeps, ckpt_at_start,
                   completed, wrote, prev, mvars>>

MembersScroll ==
    /\ pc = "listing"
    /\ \E raises \in BOOLEAN :
          /\ ScrollBody(raises)
          /\ IF raises THEN SoleCrawlRaised
             ELSE UNCHANGED <<pc, failed, raised_target>>
    /\ UNCHANGED <<hvars, operators_file, files, network_file, run, operators, i,
                   all_relationships, attempts, sleeps, ckpt_at_start,
                   completed, wrote, prev, mvars>>

EarlyReturn_SkipsFinally == pc' = "done" /\ UNCHANGED operators

\* a return statement inside the try block: the finally clause is next
EarlyReturn == pc' = "closing" /\ UNCHANGED operators

\* new_members = [m for m in members if m['username'] not in already_scraped]
NewMembers(members) ==
    SelectSeq(members, LAMBDA m : m.username \notin already_scraped)

\* fetch_list_members has returned: the two early returns, or the setup of the
\* loop over new_members (held as their usernames in `operators`)
MembersReturn ==
    /\ pc = "listing"
    /\ cpc = "returned"
    /\ LET new_members == NewMembers(following_list)
       IN IF following_list = <<>> \/ Len(new_members) = 0
          THEN EarlyReturn
          ELSE /\ pc' = "loop"
               /\ operators' = Column(new_members, "username")
    /\ i' = 1
    /\ all_relationships' = <<>>
    /\ FrameIdle
    /\ UNCHANGED <<hvars, variant, max_following, operators_file, files,
                   network_file, run, attempts, sleeps, ckpt_at_start, failed,
                   raised_target, completed, wrote, prev, mvars>>

\* if new_relationships: merge them into the prior aggregate, write it, and
\* print the ranking
MergeAndRank ==
    IF all_relationships # <<>>
    THEN LET combined_network ==
                 CombinedNetwork(existing_network, all_relationships)
         IN /\ network_file' = to_csv(combined_network)
            /\ wrote' = TRUE
            /\ report' \in Ranking(Column(combined_network, "follows"),
                                   nunique(Column(combined_network, "operator")))
    ELSE UNCHANGED <<network_file, wrote, report>>

\* the step after the loop over new_members
ListAggregate ==
    /\ script = "list"
    /\ pc = "loop"
    /\ i > Len(operators)
    /\ MergeAndRank
    /\ pc' = "closing"
    /\ UNCHANGED <<cvars, hvars, operators_file, files, run, operators, i,
                   all_relationships, attempts, sleeps, ckpt_at_start, failed,
                   raised_target, completed, prev, script, scraper,
                   existing_network, closed, exit_status>>

\* aggregate files an earlier run of this script or of
\* fetch_researcher_following.py has left (the latter repeats a row when its
\* input list repeats a line)
PriorNetworks ==
    { NoFile,
      to_csv(<<Edge("a", "b", "NA")>>),
      to_csv(<<Edge("b", "a", "Al"), Edge("b", "a", "Al")>>) }

\* checkpoints an earlier run has left: none, or the one of a member whose
\* run ended before the aggregate was written
PriorCheckpoints ==
    { [t \in Targets |-> NoFile],
      [t \in Targets |-> IF t = "a"
                         THEN to_csv(<<[username |-> "b", display_name |-> "NA"]>>)
                         ELSE NoFile] }

ListInit ==
    /\ variant = "list"
    /\ max_following = DefaultMaxFollowing
    /\ cpc = "idle"
    /\ following_list = <<>>
    /\ seen_users = {}
    /\ last_count = 0
    /\ no_new_users_count = 0
    /\ scroll_count = 0
    /\ loaded = FALSE
    /\ timed_out = FALSE
    /\ cycle = 0
    /\ fed = {}
    /\ grow_cycle = 0
    /\ left_over = FALSE
    /\ reshown = FALSE
    /\ accepted_all = TRUE
    /\ mixed = {}
    /\ first_seen = <<>>
    /\ script = "list"
    /\ pc = "idle"
    /\ operators_file = [exists |-> FALSE, lines |-> <<>>]
    /\ network_file \in PriorNetworks
    /\ files \in PriorCheckpoints
    /\ RunIdle

ListNext ==
    \/ ListBegin
    \/ StartSession
    \/ MembersCall
    \/ MembersCycle
    \/ MembersCycleFails
    \/ MembersScroll
    \/ MembersReturn
    \/ LoadCheckpoint
    \/ FetchCall
    \/ FetchCycle
    \/ FetchCycleFails
    \/ FetchScroll
    \/ FetchReturn
    \/ SaveFails
    \/ ListAggregate
    \/ AggregateFails
    \/ Close

\* ------------------------------- the merge step as a function of its inputs
MaxEdges == 2      \* rows of each of the two frames the merge step is given

\* rows a frame of edges may hold: two sources, two targets, one key with
\* three display names
EdgeKinds ==
    { Edge("A", "a", "Al"), Edge("B", "a", "Al"),
      Edge("A", "b", "Al"), Edge("A", "b", ""), Edge("A", "b", NaN) }

\* existing_network is a frame read from a file; new_relationships holds edges
\* of crawls (display names as text) and of loaded checkpoints (as read)
AssemblerInit ==
    /\ variant = "list"
    /\ max_following = DefaultMaxFollowing
    /\ cpc = "idle"
    /\ following_list = <<>>
    /\ seen_users = {}
    /\ last_count = 0
    /\ no_new_users_count = 0
    /\ scroll_count = 0
    /\ loaded = FALSE
    /\ timed_out = FALSE
    /\ cycle = 0
    /\ fed = {}
    /\ grow_cycle = 0
    /\ left_over = FALSE
    /\ reshown = FALSE
    /\ accepted_all = TRUE
    /\ mixed = {}
    /\ first_seen = <<>>
    /\ script = "list"
    /\ pc = "merge"
    /\ operators_file = [exists |-> FALSE, lines |-> <<>>]
    /\ files = [t \in Targets |-> NoFile]
    /\ \E rows \in SeqsUpTo(EdgeKinds, MaxEdges) :
          /\ network_file = to_csv(rows)
          /\ existing_network = read_csv(to_csv(rows))
    /\ all_relationships \in SeqsUpTo(EdgeKinds, MaxEdges)
    /\ run = 1
    /\ operators = <<>>
    /\ i = 1
    /\ attempts = [t \in Targets |-> 0]
    /\ sleeps = 0
    /\ ckpt_at_start = {}
    /\ failed = ""
    /\ raised_target = {}
    /\ completed = {}
    /\ wrote = FALSE
    /\ prev = NoRun
    /\ scraper = TRUE
    /\ report = <<>>
    /\ closed = 0
    /\ exit_status = 0

\* the merge step applied to the two frames
Assemble ==
    /\ pc = "merge"
    /\ MergeAndRank
    /\ pc' = "merged"
    /\ UNCHANGED <<cvars, hvars, operators_file, files, run, operators, i,
                   all_relationships, attempts, sleeps, ckpt_at_start, failed,
                   raised_target, completed, prev, script, scraper,
                   existing_network, closed, exit_status>>

SpecAssembler == AssemblerInit /\ [][Assemble]_vars

\* ----------------------------------------- fetch_following.py, main()
\* scraper = SimpleXScraper()
OwnBegin ==
    /\ script = "self"
    /\ pc = "idle"
    /\ scraper' = TRUE
    /\ pc' = "session"
    /\ UNCHANGED <<cvars, hvars, operators_file, files, network_file, run,
                   operators, i, all_relationships, attempts, sleeps,
                   ckpt_at_start, failed, raised_target, completed, wrote, prev,
                   script, existing_network, report, closed, exit_status>>

\* following_list = await scraper.fetch_following(): the call.  The wait for
\* the first UserCell is not in a try block here, so its timeout raises.
OwnCall ==
    /\ pc = "own"
    /\ \E outcome \in {"goto_raises", "timeout", "loaded"} :
          /\ Navigate("self", DefaultMaxFollowing, outcome)
          /\ IF outcome # "loaded" THEN SoleCrawlRaised
             ELSE pc' = "crawling" /\ UNCHANGED <<failed, raised_target>>
    /\ UNCHANGED <<hvars, operators_file, files, network_file, run, operators, i,
                   all_relationships, attempts, sleeps, ckpt_at_start, completed,
                   wrote, prev, mvars>>

OwnCycle ==
    /\ pc = "crawling"
    /\ \E batch \in Batches : CycleBody(batch)
    /\ UNCHANGED <<hvars, svars, mvars>>

OwnCycleFails ==
    /\ pc = "crawling"
    /\ QueryRaises
    /\ SoleCrawlRaised
    /\ UNCHANGED <<hvars, operators_file, files, network_file, run, operators, i,
                   all_relationships, attempts, sleeps, ckpt_at_start,
                   completed, wrote, prev, mvars>>

OwnScroll ==
    /\ pc = "crawling"
    /\ \E raises \in BOOLEAN :
          /\ ScrollBody(raises)
          /\ IF raises THEN SoleCrawlRaised
             ELSE UNCHANGED <<pc, failed, raised_target>>
    /\ UNCHANGED <<hvars, operators_file, files, network_file, run, operators, i,
                   all_relationships, attempts, sleeps, ckpt_at_start,
                   completed, wrote, prev, mvars>>

\* fetch_following has returned: the sorted table is written to
\* my_following.csv and summarised, or "No following data collected" is
\* logged.  No script reads my_following.csv back and the records of the
\* model carry no followers_count, so the file's content is not held; an
\* exception from these lines reaches the except clause like any other.
OwnReturn ==
    /\ pc = "crawling"
    /\ cpc = "returned"
    /\ \E save_raises \in BOOLEAN :
          failed' = IF following_list # <<>> /\ save_raises THEN "save" ELSE failed
    /\ pc' = "closing"
    /\ FrameIdle
    /\ UNCHANGED <<hvars, variant, max_following, operators_file, files,
                   network_file, run, operators, i, all_relationships, attempts,
                   sleeps, ckpt_at_start, raised_target, completed, wrote, prev,
                   mvars>>

OwnInit ==
    /\ variant = "self"
    /\ max_following = DefaultMaxFollowing
    /\ cpc = "idle"
    /\ following_list = <<>>
    /\ seen_users = {}
    /\ last_count = 0
    /\ no_new_users_count = 0
    /\ scroll_count = 0
    /\ loaded = FALSE
    /\ timed_out = FALSE
    /\ cycle = 0
    /\ fed = {}
    /\ grow_cycle = 0
    /\ left_over = FALSE
    /\ reshown = FALSE
    /\ accepted_all = TRUE
    /\ mixed = {}
    /\ first_seen = <<>>
    /\ script = "self"
    /\ pc = "idle"
    /\ operators_file = [exists |-> FALSE, lines |-> <<>>]
    /\ SchedulerIdle

OwnNext ==
    \/ OwnBegin
    \/ StartSession
    \/ OwnCall
    \/ OwnCycle
    \/ OwnCycleFails
    \/ OwnScroll
    \/ OwnReturn
    \/ Close

\* ------------------------------------------------ the three scripts
MainsInit == Init \/ ListInit \/ OwnInit

MainsNext == Next \/ ListNext \/ OwnNext

SpecMains == MainsInit /\ [][MainsNext]_vars

\* ------------------------------------------------------------- claims
\* C1 (convergence): when fetch_user_following returns below the cap from a
\* list view that loaded, it has run exactly MaxNoNewUser cycles beyond the last
\* cycle in which the feed showed a new well-formed identity, and its result
\* holds each identity the feed had shown by then exactly once.
C1_Convergence ==
    (variant = "user" /\ cpc = "returned" /\ loaded
        /\ Len(following_list) < max_following)
    => /\ cycle = grow_cycle + MaxNoNewUser
       /\ UsernamesOf(following_list) = fed
       /\ Len(following_list) = Cardinality(fed)

C1_Witness ==
    /\ variant = "user" /\ cpc = "returned" /\ loaded
    /\ Len(following_list) < max_following
    /\ grow_cycle = 2
    /\ cycle = 5
    /\ Len(following_list) = 2

\* C2 (cap): the result of fetch_user_following never holds more than
\* max_following records, and whenever a cycle leaves a new identity of its batch
\* unadded the result holds exactly max_following records, also when returned.
C2_Cap ==
    variant = "user"
    => /\ Len(following_list) <= max_following
       /\ left_over => Len(following_list) = max_following

C2_Witness ==
    /\ variant = "user" /\ cpc = "returned" /\ left_over
    /\ Len(following_list) = max_following

\* C3 (dedup): in every state of every Collector variant no two records of the
\* result have the same username.
C3_Dedup ==
    \A j, k \in 1..Len(following_list) :
        j # k => following_list[j].username # following_list[k].username

C3_Witness ==
    /\ cpc = "returned" /\ reshown
    /\ Len(following_list) = 2


\* the edges a checkpoint file holds for a source, field for field as written
VerbatimEdges(operator, file) ==
    [k \in 1..Len(file.rows) |->
        Edge(operator, file.rows[k].username, file.rows[k].display_name)]

\* C4 (checkpoint skip): a step that processes a target whose checkpoint exists
\* calls no Collector (no navigation, extraction or scroll), sleeps no delay,
\* writes no checkpoint, and appends exactly the checkpoint's edges, in order,
\* with that target as source (compared as the text the aggregate would hold).
C4_CheckpointSkip ==
    [][ (pc = "loop" /\ i <= Len(operators) /\ files[operators[i]].exists)
        => /\ attempts' = attempts
           /\ sleeps' = sleeps
           /\ cpc' = cpc
           /\ files' = files
           /\ to_csv(all_relationships').rows =
                  to_csv(all_relationships).rows
                      \o VerbatimEdges(operators[i], files[operators[i]]) ]_vars

\* C5 (resumability): when a run that finds a checkpoint for every target of
\* the list follows a run that wrote the aggregate, it writes the aggregate
\* again and the file is identical to the one the earlier run wrote.
C5_Resumability ==
    (pc = "done" /\ prev.ran /\ prev.wrote /\ failed = ""
        /\ operators_file.exists /\ Range(operators) \subseteq ckpt_at_start)
    => wrote /\ network_file = prev.network

\* C6 (failure isolation): when the crawl of a target raised, the run still
\* ends normally with no target of the list left unprocessed, and the failed
\* target has no checkpoint.
C6_FailureIsolation ==
    (pc = "done" /\ raised_target # {})
    => /\ failed = ""
       /\ {k \in 1..Len(operators) : k > i} = {}
       /\ \A t \in raised_target : ~files[t].exists

\* C7 (retry on next run): a target whose crawl raised has no checkpoint when
\* the run has ended, and the next run over the same list, once its session is
\* up, calls the Collector for it again.
C7_RetryNextRun ==
    /\ (pc = "done" /\ raised_target # {})
       => \A t \in raised_target : ~files[t].exists
    /\ (pc = "done" /\ prev.ran /\ prev.raised # {} /\ failed # "session"
           /\ operators_file.exists)
       => \A t \in prev.raised : attempts[t] >= 1

\* C8 (checkpoint on completion): every target whose list view loaded and whose
\* Collector call returned in this run has a checkpoint, also when the result
\* was empty.
C8_CheckpointOnCompletion ==
    \A t \in completed : files[t].exists

\* C9 (exactly one attempt): no identity is crawled more than once in a run, and
\* a run whose session came up ends having called the Collector exactly once
\* for each identity of the list that had no checkpoint when the run began, and
\* never for any other.
C9_ExactlyOneAttempt ==
    /\ \A t \in Idents : attempts[t] <= 1
    /\ (pc = "done" /\ operators_file.exists /\ failed # "session")
       => \A t \in Idents :
              attempts[t] = IF t \in Range(operators) \ ckpt_at_start THEN 1 ELSE 0

\* the identities of a list of names in order of first occurrence, blanks dropped
RECURSIVE FirstSeen(_, _)
FirstSeen(names, acc) ==
    IF names = <<>> THEN acc
    ELSE IF Head(names) = "" \/ Head(names) \in Range(acc)
         THEN FirstSeen(Tail(names), acc)
         ELSE FirstSeen(Tail(names), Append(acc, Head(names)))

\* C10 (TargetSet construction): the list the loop iterates holds no blank entry
\* and no identity twice, and keeps the file's order of first occurrence.
C10_TargetSet ==
    (pc \in {"session", "loop", "fetching", "closing", "done"}
        /\ operators_file.exists)
    => operators =
           FirstSeen([k \in 1..Len(operators_file.lines) |->
                         Join(Strip(operators_file.lines[k], Whitespace))], <<>>)

\* the (source, target) key of a row of edges
Key(row) == <<row.operator, row.follows>>

\* no two rows of a frame or file have the same key
KeyUnique(rows) ==
    \A j, k \in 1..Len(rows) : j # k => Key(rows[j]) # Key(rows[k])

\* C11 (aggregate key uniqueness): the aggregate file a run has written holds no
\* two rows with the same (source identity, target username) pair.
C11_KeyUniqueness ==
    wrote => KeyUnique(network_file.rows)

\* the frames the merge step concatenates
MergeInput == existing_network \o all_relationships

\* C12 (later write wins): once the merge step has written the aggregate, every
\* key that occurs in the merge input with two different display names has
\* exactly one row in the aggregate, and that row carries the display name of
\* the key's last occurrence in the merge input.
C12_LaterWriteWins ==
    (pc = "merged" /\ wrote)
    => \A j, k \in 1..Len(MergeInput) :
          (j < k /\ Key(MergeInput[j]) = Key(MergeInput[k])
              /\ MergeInput[j].follows_display_name
                     # MergeInput[k].follows_display_name)
          => LET last == CHOOSE n \in 1..Len(MergeInput) :
                             /\ Key(MergeInput[n]) = Key(MergeInput[j])
                             /\ \A m \in (n + 1)..Len(MergeInput) :
                                    Key(MergeInput[m]) # Key(MergeInput[j])
                 kept == {n \in 1..Len(network_file.rows) :
                             Key(network_file.rows[n]) = Key(MergeInput[j])}
             IN /\ Cardinality(kept) = 1
                /\ \A n \in kept :
                       network_file.rows[n].follows_display_name
                           = WriteField(MergeInput[last].follows_display_name)

\* C13 (merge idempotence): when the merge step is given a relationship graph
\* (a non-empty frame with no key twice) as the prior aggregate and again as the
\* new edges, the aggregate it writes is the file the graph was read from: the
\* same rows in the same order, none added, no key twice.
C13_MergeIdempotence ==
    (pc = "merged" /\ all_relationships = existing_network
        /\ KeyUnique(existing_network))
    => /\ network_file = to_csv(existing_network)
       /\ KeyUnique(network_file.rows)
       /\ all_relationships # <<>> => wrote

C13_Witness ==
    /\ pc = "merged" /\ wrote
    /\ all_relationships = existing_network
    /\ KeyUnique(existing_network)
    /\ Len(existing_network) = 2
    /\ Len(network_file.rows) = 2

\* the edges the ranking of a run is about
RankedEdges ==
    IF script = "list" THEN existing_network \o all_relationships
    ELSE all_relationships

\* the distinct source identities with an edge to a target
SourcesOf(target, edges) ==
    {edges[k].operator : k \in {j \in 1..Len(edges) : edges[j].follows = target}}

\* C14 (ranking count): in the ranking a run has printed, the count of every
\* target username is the number of distinct source identities with an edge to
\* it, however often the same edge occurs in the accumulated sequence.
C14_RankingCount ==
    wrote => \A k \in 1..Len(report) :
                 report[k].count
                     = Cardinality(SourcesOf(report[k].username, RankedEdges))

\* the distinct source identities a run considers: the targets of its loop and,
\* for the list-member run, the sources of the prior aggregate
Considered ==
    IF script = "list" THEN Range(operators) \cup (already_scraped \ {NaN})
    ELSE Range(operators)

\* C15 (ranking percentage): in the ranking a run of any script has printed,
\* the percentage of every target is its count divided by the number of
\* distinct source identities the run considered, and is at most 100.
C15_RankingPercentage ==
    wrote => \A k \in 1..Len(report) :
                 /\ report[k].percentage.num * Cardinality(Considered)
                        = report[k].count * 100 * report[k].percentage.den
                 /\ report[k].percentage.num <= 100 * report[k].percentage.den

\* the position at which a target is first seen in the edge sequence
FirstAt(target, edges) ==
    CHOOSE k \in 1..Len(edges) :
        /\ edges[k].follows = target
        /\ \A j \in 1..(k - 1) : edges[j].follows # target

\* C16 (ranking order): the ranking a run has printed lists the targets by
\* descending count, and targets of equal count in the order in which they are
\* first seen in the edge sequence.
C16_RankingOrder ==
    wrote => \A j, k \in 1..Len(report) :
                 j < k =>
                     /\ report[j].count >= report[k].count
                     /\ report[j].count = report[k].count
                            => FirstAt(report[j].username, RankedEdges)
                                   < FirstAt(report[k].username, RankedEdges)

\* C17 (exit status): a run in which an exception was raised during session
\* start, login or the batch loop ends with a non-zero exit status.
C17_ExitStatus ==
    (pc = "done" /\ failed # "") => exit_status # 0

\* C18 (teardown always runs): scraper.close() is never called twice in a run
\* and not before main() is left, and whenever main() has been left after the
\* scraper object was created (normal completion, an early return of the
\* list-member run, or an exception in start, login or the crawl) it has been
\* called exactly once; it is not called when no scraper was created.
C18_Teardown ==
    /\ closed <= 1
    /\ pc # "done" => closed = 0
    /\ pc = "done" => closed = IF scraper THEN 1 ELSE 0

C18_Witness ==
    /\ script = "list" /\ pc = "done"
    /\ failed = "" /\ operators = <<>> /\ existing_network # <<>>
    /\ scraper /\ closed = 1

\* C19 (target unavailable): in every Collector variant, when the wait for the
\* first UserCell times out the Collector returns an empty result and does not
\* raise.
C19_TargetUnavailable ==
    timed_out => (cpc = "returned" /\ following_list = <<>>)

\* C20 (malformed-record skip): a cycle that has not filled the cap has appended
\* every well-formed, not yet seen identity of its batch, in the batch's order,
\* whatever cells of the batch were skipped because their extraction raised or
\* they showed no well-formed identity.
C20_MalformedSkip ==
    (Capped(variant) => Len(following_list) < max_following) => accepted_all

C20_Witness ==
    /\ cpc = "returned" /\ accepted_all
    /\ mixed = {"before", "after"}
    /\ Len(following_list) = 2

\* C21 (persistence failure): when the write of a target's checkpoint failed,
\* the run has ended with that target without a checkpoint and with no target
\* of the list after it left unprocessed.
C21_PersistenceFailure ==
    (pc = "done" /\ failed = "checkpoint")
    => /\ ~files[operators[i]].exists
       /\ {k \in 1..Len(operators) : k > i} = {}

\* C22 (checkpoint immutability): no step of any run of any script changes the
\* checkpoint of a target that has one; a checkpoint is only ever written for
\* a target that has none at that moment.
C22_CheckpointImmutability ==
    [][\A t \in Targets : files[t].exists => files'[t] = files[t]]_vars

\* a later run (or the list script over a directory that holds checkpoints) has
\* passed over a target that had a checkpoint and has ended
C22_Witness ==
    /\ pc = "done"
    /\ i > Len(operators)
    /\ \E k \in 1..Len(operators) :
          /\ operators[k] \in ckpt_at_start
          /\ attempts[operators[k]] = 0
          /\ files[operators[k]].rows # <<>>

\* C23 (checkpoint completeness): a checkpoint file is only ever changed by a
\* step taken after the Collector call for that target has returned, and what
\* the step leaves is the whole result of that call.
C23_CheckpointCompleteness ==
    [][\A t \in Targets :
          files'[t] # files[t]
          => /\ pc = "fetching"
             /\ cpc = "returned"
             /\ t = operators[i]
             /\ files'[t] = to_csv(following_list)]_vars

\* C24 (aggregate written only at the end): the aggregate file changes only in
\* a step taken after the loop over all targets has finished and in a run that
\* does not end through the except clause, and no step removes a checkpoint.
C24_AggregateOnlyAtEnd ==
    [][/\ network_file' # network_file
          => (pc = "loop" /\ i > Len(operators) /\ failed' = "")
       /\ \A t \in Targets : files[t].exists => files'[t].exists]_vars

\* C25 (missing input list): while the input list file does not exist no run
\* creates the scraper or starts a session, calls the Collector, closes
\* anything, or writes a checkpoint or the aggregate file.
C25_MissingInputList ==
    ~operators_file.exists
    => /\ pc \in {"idle", "done"}
       /\ ~scraper
       /\ closed = 0
       /\ cpc = "idle"
       /\ \A t \in Targets : attempts[t] = 0 /\ files[t] = NoFile
       /\ network_file = NoFile
       /\ ~wrote
       /\ failed = ""

\* the second run over a missing input list has returned
C25_Witness ==
    /\ ~operators_file.exists
    /\ pc = "done"
    /\ run = MaxRuns

\* the Collector has come to its return statement through the while loop
Stopped == cpc = "returned" /\ loaded

\* the stall window: the counter has reached max_no_new, and that many cycles
\* have passed since the last one that showed a new account
Converged ==
    /\ no_new_users_count >= MaxNoNew(variant)
    /\ cycle - grow_cycle >= MaxNoNew(variant)

ItemCapReached == Capped(variant) /\ Len(following_list) >= max_following

C27_NoRevealAfterCap ==
    (Capped(variant) /\ loaded /\ Len(following_list) >= max_following)
    => cpc # "scroll"

\* C28 (inter-target delay and order): within a run the loop index only moves
\* to the next position of the list, the Collector is called only for the
\* target at the index, the step that ends a crawl attempt adds one
\* inter-target delay exactly when its target is not the last of the list, and
\* no other step of the run (a checkpoint load among them) adds a delay.
C28_DelayAndOrder ==
    [][run' = run
       => /\ (pc \in {"loop", "fetching"} /\ pc' \in {"loop", "fetching"})
                => i' \in {i, i + 1}
          /\ \A t \in Targets :
                attempts'[t] # attempts[t]
                => /\ pc = "loop"
                   /\ i <= Len(operators)
                   /\ t = operators[i]
                   /\ ~files[t].exists
                   /\ attempts'[t] = attempts[t] + 1
          /\ IF pc = "fetching" /\ pc' = "loop"
             THEN /\ i' = i + 1
                  /\ sleeps' = IF i < Len(operators) THEN sleeps + 1 ELSE sleeps
             ELSE sleeps' = sleeps]_vars

\* a run over two targets has crawled the first, slept once, crawled the
\* second and ended
C28_Witness ==
    /\ pc = "done"
    /\ failed = ""
    /\ Len(operators) = 2
    /\ attempts[operators[1]] = 1
    /\ attempts[operators[2]] = 1
    /\ operators[1] # operators[2]
    /\ sleeps = 1

\* a profile link the claim allows a record to come from: found, not the root
\* and not a link to a status
AllowedLink(c) ==
    /\ c.has_link
    /\ c.href # <<>>
    /\ c.href # <<"/">>
    /\ ~Contains(c.href, <<"/", "status", "/">>)

\* the identity such a link spells, when it is non-empty and holds no '/'
AllowedNames ==
    {Join(Strip(c.href, {"/"})) :
        c \in {d \in CellKinds : /\ AllowedLink(d)
                                  /\ Strip(d.href, {"/"}) # <<>>
                                  /\ "/" \notin Range(Strip(d.href, {"/"}))}}

\* C29 (accepted identities are well formed): every record of the result, in
\* every state of every Collector variant, has a non-empty username that is
\* the text, free of '/', of a profile link that is neither the root nor a
\* link to a status.
C29_WellFormed ==
    \A k \in 1..Len(following_list) :
        /\ following_list[k].username # ""
        /\ following_list[k].username \in AllowedNames

\* a batch that held malformed cells next to a well-formed one has been
\* processed and the result holds a record
C29_Witness ==
    /\ following_list # <<>>
    /\ mixed = {"before", "after"}

\* s is an initial part of t
IsPrefix(s, t) == Len(s) <= Len(t) /\ s = SubSeq(t, 1, Len(s))

\* the result lists identities in the order the feed first showed them
InFirstSeenOrder ==
    IsPrefix([k \in 1..Len(following_list) |-> following_list[k].username],
             first_seen)

\* C30 (first-seen order): after every step of a Collector call the result
\* lists its identities in the order in which the feed first showed them, and
\* the step has left every record that was in the result at its place,
\* unchanged.
C30_FirstSeenOrder ==
    [][/\ InFirstSeenOrder'
       /\ cpc # "idle" => IsPrefix(following_list, following_list')]_vars

\* the Collector has returned two identities, "b" shown before "a", from a
\* feed that also held cells it skipped
C30_Witness ==
    /\ cpc = "returned"
    /\ Len(following_list) = 2
    /\ last_count = 2
    /\ first_seen = <<"b", "a">>
    /\ mixed # {}

\* the rows of a frame or file, as a set
Rows(rows) == Range(rows)

NoRowTwice(rows) == \A j, k \in 1..Len(rows) : j < k => rows[j] # rows[k]

\* C31 (already-processed seeding): in a run of the list script, as long as
\* the aggregate file is the prior one no source identity of its rows has been
\* crawled, and the step that writes the aggregate leaves a file without a
\* repeated row whose rows are those of the prior file together with the edges
\* collected or loaded for the new members.
C31_Seeding ==
    [][script = "list"
       => /\ (~wrote' /\ failed' # "aggregate")
                => \A k \in 1..Len(network_file'.rows) :
                       attempts'[network_file'.rows[k].operator] = 0
          /\ (wrote' /\ ~wrote)
                => /\ NoRowTwice(network_file'.rows)
                   /\ Rows(network_file'.rows)
                          = Rows(network_file.rows)
                                \cup Rows(to_csv(all_relationships).rows)]_vars

\* C33 (no loss of prior edges): no step of a run of the list script removes
\* the aggregate file or a row from it: every (source, follows, display name)
\* row the file held before the step is in the file after it.
C33_NoLossOfPriorEdges ==
    [][script = "list"
       => /\ network_file.exists => network_file'.exists
          /\ Rows(network_file.rows) \subseteq Rows(network_file'.rows)]_vars

InLoop == cpc \in {"loop", "scroll"}

LeftLoop == cpc \in {"returned", "raised"}

\* C32 (Collector termination): over a feed whose cells show identities of a
\* finite set, a Collector that is in its while loop eventually leaves it, by
\* its return statement or by an exception; this holds for each variant, the
\* one without item cap and scroll limit included.
C32_Termination == InLoop ~> LeftLoop

\* the Collector without cap and scroll limit has gone through its loop,
\* collected every identity of the feed and returned through the stall window
C32_Witness ==
    /\ variant = "self"
    /\ cpc = "returned"
    /\ loaded
    /\ UsernamesOf(following_list) = Usernames
    /\ no_new_users_count = MaxNoNewUser

====
